---- MODULE Spec2Model ----
(***************************************************************************)
(* The contact manager of hw1.py: Phone and Birthday validation, Record,   *)
(* AddressBook (an insertion-ordered dict), the upcoming-birthdays query,  *)
(* the command functions behind the input_error decorator, and main,       *)
(* whose loop ends at its first turn: it calls parse_input, a name the     *)
(* program never defines.                                                  *)
(*                                                                         *)
(* A Python str is modelled as the sequence of its Unicode code points, so *)
(* that len(), isdigit(), strptime() and strftime() are computed and not   *)
(* assumed.  A dict is modelled as the sequence of its entries in          *)
(* iteration order.                                                        *)
(***************************************************************************)
EXTENDS Integers, Sequences, FiniteSets, TLC

VARIABLES
  book,        \* AddressBook.data: <<[key, rec], ...>> in dict iteration order
  today,       \* the date datetime.today().date() returns now
  elapsed,     \* days the clock has advanced since the start (bounds today)
  call,        \* the last operation invoked and its arguments
  ret,         \* how it came back to its caller: a returned value or a raised exception
  out,         \* what it handed to ui.display_message
  running,     \* main() is running; FALSE once main has ended, and when the
               \* caller of the functions and methods is not main
  file,        \* database.bin: whether it exists and the book pickled in it
  firstOrder,  \* history: the names ever inserted, in order of their first insertion
  liveOrder    \* history: the names now present, in order of their current insertion

vars == <<book, today, elapsed, call, ret, out, running, file, firstOrder, liveOrder>>

(***************************************************************************)
(* Bounds of the model.                                                    *)
(***************************************************************************)
MaxPhones == 2     \* a record's phone list grows to at most this length
MaxElapsed == 9    \* the clock advances at most this many days from a start date
MaxDays == 8       \* the largest window asked of get_upcoming_birthdays

(***************************************************************************)
(* Characters and strings.                                                 *)
(***************************************************************************)
Dot == 46
Space == 32
Zero == 48
Semicolon == 59

\* The code points of the DIGIT ZERO of every run of ten decimal digits
\* (Unicode category Nd, Unicode 14.0 as unicodedata has it): ASCII,
\* Arabic-Indic, Extended Arabic-Indic, NKo, Devanagari, ..., Fullwidth,
\* ..., the five mathematical alphabets, ..., Segmented.
NdZeros ==
  {48, 1632, 1776, 1984, 2406, 2534, 2662, 2790, 2918, 3046, 3174, 3302, 3430,
   3558, 3664, 3792, 3872, 4160, 4240, 6112, 6160, 6470, 6608, 6784, 6800, 6992,
   7088, 7232, 7248, 42528, 43216, 43264, 43472, 43504, 43600, 44016, 65296,
   66720, 68912, 69734, 69872, 69942, 70096, 70384, 70736, 70864, 71248, 71360,
   71472, 71904, 72016, 72784, 73040, 73120, 92768, 92864, 93008, 120782,
   120792, 120802, 120812, 120822, 123200, 123632, 125264, 130032}

\* re's \d on a str: the Unicode decimal digits (category Nd).
IsDecimalChar(c) == \E z \in NdZeros : c \in z..(z + 9)

\* int() of one decimal digit character: its place in its run of ten.
DecimalValue(c) == c - (CHOOSE z \in NdZeros : c \in z..(z + 9))

\* The characters of Numeric_Type Digit that are not decimal digits:
\* superscripts and subscripts, Ethiopic, New Tai Lue THAM DIGIT ONE, circled,
\* parenthesized, full-stop and dingbat digits, Kharoshthi, Rumi, Brahmi,
\* DIGIT ZERO FULL STOP and the comma digits.
OtherDigits ==
  (178..179) \cup {185} \cup (4969..4977) \cup {6618} \cup {8304} \cup (8308..8313)
    \cup (8320..8329) \cup (9312..9320) \cup (9332..9340) \cup (9352..9360) \cup {9450}
    \cup (9461..9469) \cup {9471} \cup (10102..10110) \cup (10112..10120)
    \cup (10122..10130) \cup (68160..68163) \cup (69216..69224) \cup (69714..69722)
    \cup (127232..127242)

\* str.isdigit() per character: Numeric_Type Decimal or Digit.
IsDigitChar(c) == IsDecimalChar(c) \/ c \in OtherDigits

\* A character range of a regular expression, [lo-hi] over ASCII digits.
InRange(c, lo, hi) == c \in (Zero + lo)..(Zero + hi)

\* Index of the first occurrence of character c in s, 0 when there is none.
FirstIndexOf(s, c) ==
  IF \E i \in 1..Len(s) : s[i] = c
  THEN CHOOSE i \in 1..Len(s) : s[i] = c /\ \A j \in 1..(i - 1) : s[j] # c
  ELSE 0

\* strftime's %m and %d: two digits, zero-padded.
Pad2(n) == <<Zero + ((n \div 10) % 10), Zero + (n % 10)>>

\* The decimal text of a natural number, no padding: str(n), and strftime's
\* %Y as the C library gives it (the year 812 is "812").
RECURSIVE Decimal(_)
Decimal(n) == IF n < 10 THEN <<Zero + n>> ELSE Decimal(n \div 10) \o <<Zero + (n % 10)>>

(***************************************************************************)
(* datetime.date.                                                          *)
(***************************************************************************)
MinYear == 1
MaxYear == 9999

IsLeap(y) == (y % 4 = 0) /\ ((y % 100 # 0) \/ (y % 400 = 0))

DaysInMonth(y, m) ==
  IF m = 2 THEN (IF IsLeap(y) THEN 29 ELSE 28)
  ELSE IF m \in {4, 6, 9, 11} THEN 30 ELSE 31

DaysBeforeYear(y) ==
  (y - 1) * 365 + ((y - 1) \div 4) - ((y - 1) \div 100) + ((y - 1) \div 400)

RECURSIVE DaysBeforeMonth(_, _)
DaysBeforeMonth(y, m) ==
  IF m = 1 THEN 0 ELSE DaysBeforeMonth(y, m - 1) + DaysInMonth(y, m - 1)

Date(y, m, d) == [year |-> y, month |-> m, day |-> d]

\* date.toordinal(): the day number, 1 for 0001-01-01.
Ordinal(dt) == DaysBeforeYear(dt.year) + DaysBeforeMonth(dt.year, dt.month) + dt.day

\* date.__lt__: comparison of (year, month, day).
DateLess(a, b) ==
  \/ a.year < b.year
  \/ a.year = b.year /\ a.month < b.month
  \/ a.year = b.year /\ a.month = b.month /\ a.day < b.day

\* (a - b).days
DaysBetween(a, b) == Ordinal(a) - Ordinal(b)

\* The ValueError of a year no date has; the years the callers can pass
\* beyond the range are the one after 9999 and the one before 1.
YearOutOfRange(y) ==
  CASE y = MaxYear + 1 -> "year 10000 is out of range"
    [] y = MinYear - 1 -> "year 0 is out of range"

\* date.replace(year=y): [ok, exc, date].  The year is checked first, then
\* the day against the month of that year.
Replace(dt, y) ==
  IF y < MinYear \/ y > MaxYear
  THEN [ok |-> FALSE, exc |-> YearOutOfRange(y), date |-> dt]
  ELSE IF dt.day > DaysInMonth(y, dt.month)
       THEN [ok |-> FALSE, exc |-> "day is out of range for month", date |-> dt]
       ELSE [ok |-> TRUE, exc |-> "", date |-> Date(y, dt.month, dt.day)]

\* date.strftime("%Y.%m.%d")
Strftime(dt) == Decimal(dt.year) \o <<Dot>> \o Pad2(dt.month) \o <<Dot>> \o Pad2(dt.day)

\* The day after dt: what datetime.today().date() returns once midnight has passed.
NextDay(dt) ==
  IF dt.day < DaysInMonth(dt.year, dt.month) THEN Date(dt.year, dt.month, dt.day + 1)
  ELSE IF dt.month < 12 THEN Date(dt.year, dt.month + 1, 1)
  ELSE Date(dt.year + 1, 1, 1)

(***************************************************************************)
(* datetime.strptime(value, "%d.%m.%Y").date()                             *)
(***************************************************************************)
\* %d : 3[0-1] | [1-2]\d | 0[1-9] | [1-9] | " "[1-9]
DayTokenOk(t) ==
  \/ Len(t) = 2 /\ t[1] = Zero + 3 /\ InRange(t[2], 0, 1)
  \/ Len(t) = 2 /\ InRange(t[1], 1, 2) /\ IsDecimalChar(t[2])
  \/ Len(t) = 2 /\ t[1] = Zero /\ InRange(t[2], 1, 9)
  \/ Len(t) = 1 /\ InRange(t[1], 1, 9)
  \/ Len(t) = 2 /\ t[1] = Space /\ InRange(t[2], 1, 9)

\* %m : 1[0-2] | 0[1-9] | [1-9]
MonthTokenOk(t) ==
  \/ Len(t) = 2 /\ t[1] = Zero + 1 /\ InRange(t[2], 0, 2)
  \/ Len(t) = 2 /\ t[1] = Zero /\ InRange(t[2], 1, 9)
  \/ Len(t) = 1 /\ InRange(t[1], 1, 9)

\* %Y : \d\d\d\d, and nothing may follow it
YearTokenOk(t) == Len(t) = 4 /\ \A i \in 1..4 : IsDecimalChar(t[i])

\* int(token); int() skips the blank a " 5" day token leads with.
RECURSIVE IntOf(_)
IntOf(t) ==
  IF t = <<>> THEN 0
  ELSE IF t[1] = Space THEN IntOf(Tail(t))
  ELSE IntOf(SubSeq(t, 1, Len(t) - 1)) * 10 + DecimalValue(t[Len(t)])

\* The parse: [ok, date].  The three tokens are what the dots separate; the
\* match fails on a missing dot, a malformed token, year 0 and a day the
\* month does not have.
Strptime(s) ==
  LET i == FirstIndexOf(s, Dot)
      rest == IF i = 0 THEN <<>> ELSE SubSeq(s, i + 1, Len(s))
      j == FirstIndexOf(rest, Dot)
      dayTok == IF i = 0 THEN <<>> ELSE SubSeq(s, 1, i - 1)
      monTok == IF j = 0 THEN <<>> ELSE SubSeq(rest, 1, j - 1)
      yearTok == IF j = 0 THEN <<>> ELSE SubSeq(rest, j + 1, Len(rest))
      matched == i > 0 /\ j > 0 /\ DayTokenOk(dayTok) /\ MonthTokenOk(monTok)
                   /\ YearTokenOk(yearTok)
      y == IntOf(yearTok)
      m == IntOf(monTok)
      d == IntOf(dayTok)
  IN IF matched /\ y >= MinYear /\ d <= DaysInMonth(y, m)
     THEN [ok |-> TRUE, date |-> Date(y, m, d)]
     ELSE [ok |-> FALSE, date |-> Date(0, 0, 0)]

(***************************************************************************)
(* Fields.                                                                 *)
(***************************************************************************)
PhoneLen == 10

\* Phone.value setter: accepts, or raises ValueError("Invalid phone format").
PhoneValid(value) ==
  Len(value) = PhoneLen /\ \A i \in 1..Len(value) : IsDigitChar(value[i])

NoBirthday == [set |-> FALSE, value |-> <<>>, date |-> Date(0, 0, 0)]

\* Birthday(value): [ok, birthday]; not ok stands for
\* ValueError("Invalid date format. Use DD.MM.YYYY").
Birthday(value) ==
  LET p == Strptime(value)
  IN IF p.ok THEN [ok |-> TRUE, birthday |-> [set |-> TRUE, value |-> value, date |-> p.date]]
     ELSE [ok |-> FALSE, birthday |-> NoBirthday]

(***************************************************************************)
(* Record.  An operation that can raise yields [rec, exc]: the record as   *)
(* the operation leaves it and the message of the ValueError it raised     *)
(* ("" when it returned).                                                  *)
(***************************************************************************)
Record(name) == [name |-> name, phones |-> <<>>, birthday |-> NoBirthday]

\* [p for p in phones if str(p) != phone_number]
RECURSIVE KeepPhones(_, _)
KeepPhones(phones, phone_number) ==
  IF phones = <<>> THEN <<>>
  ELSE IF Head(phones) # phone_number
       THEN <<Head(phones)>> \o KeepPhones(Tail(phones), phone_number)
       ELSE KeepPhones(Tail(phones), phone_number)

\* add_phone gone wrong: the new phone is put first in the list.
add_phone_first(rec, phone_number) ==
  IF PhoneValid(phone_number)
  THEN [rec |-> [rec EXCEPT !.phones = <<phone_number>> \o @], exc |-> ""]
  ELSE [rec |-> rec, exc |-> "Invalid phone format"]

\* Record.add_phone: Phone(phone_number) is built first, then appended.
add_phone(rec, phone_number) ==
  IF PhoneValid(phone_number)
  THEN [rec |-> [rec EXCEPT !.phones = Append(@, phone_number)], exc |-> ""]
  ELSE [rec |-> rec, exc |-> "Invalid phone format"]

\* Record.remove_phone
remove_phone(rec, phone_number) ==
  [rec |-> [rec EXCEPT !.phones = KeepPhones(@, phone_number)], exc |-> ""]

\* edit_phone gone wrong: the loop does not return after the first match.
edit_phone_every(rec, old_number, new_number) ==
  IF FirstIndexOf(rec.phones, old_number) = 0
  THEN [rec |-> rec, exc |-> "Phone number not found"]
  ELSE IF PhoneValid(new_number)
       THEN [rec |-> [rec EXCEPT !.phones = [i \in 1..Len(@) |->
                                              IF @[i] = old_number THEN new_number ELSE @[i]]],
             exc |-> ""]
       ELSE [rec |-> rec, exc |-> "Invalid phone format"]

\* Record.edit_phone: the first phone whose text is old_number is assigned
\* new_number through the validating setter.
edit_phone(rec, old_number, new_number) ==
  LET i == FirstIndexOf(rec.phones, old_number)
  IN IF i = 0 THEN [rec |-> rec, exc |-> "Phone number not found"]
     ELSE IF PhoneValid(new_number)
          THEN [rec |-> [rec EXCEPT !.phones[i] = new_number], exc |-> ""]
          ELSE [rec |-> rec, exc |-> "Invalid phone format"]

\* Record.add_birthday
Record_add_birthday(rec, birthday) ==
  LET b == Birthday(birthday)
  IN IF b.ok THEN [rec |-> [rec EXCEPT !.birthday = b.birthday], exc |-> ""]
     ELSE [rec |-> rec, exc |-> "Invalid date format. Use DD.MM.YYYY"]

(***************************************************************************)
(* The dict behind AddressBook (UserDict.data).                            *)
(***************************************************************************)
\* Position of key k among the entries, 0 when absent.
DictIndex(d, k) ==
  IF \E i \in 1..Len(d) : d[i].key = k
  THEN CHOOSE i \in 1..Len(d) : d[i].key = k
  ELSE 0

Keys(d) == {d[i].key : i \in 1..Len(d)}

\* d[k] = v gone wrong: a list append, which repeats an existing key.
DictSet_append(d, k, v) == Append(d, [key |-> k, rec |-> v])

\* d[k] = v: an existing key keeps its place, a new key goes last.
DictSet(d, k, v) ==
  IF DictIndex(d, k) = 0 THEN Append(d, [key |-> k, rec |-> v])
  ELSE [d EXCEPT ![DictIndex(d, k)].rec = v]

\* del d[k]
DictDel(d, k) ==
  LET i == DictIndex(d, k)
  IN SubSeq(d, 1, i - 1) \o SubSeq(d, i + 1, Len(d))

\* The record object at position i replaced by its mutated self: what a
\* method call on the reference find() returned does to the book.
Mutate(d, i, rec) == [d EXCEPT ![i].rec = rec]

(***************************************************************************)
(* AddressBook.                                                            *)
(***************************************************************************)
add_record(b, record) == DictSet(b, record.name, record)

\* AddressBook.find: the position of the record, 0 standing for None.
find(b, name) == DictIndex(b, name)

delete(b, name) == IF name \in Keys(b) THEN DictDel(b, name) ELSE b

\* One round of the loop of get_upcoming_birthdays over the record user:
\* [raised, exc, hit, entry]; exc is the message of the ValueError of the
\* first date.replace that failed.
UpcomingOf(user, t, days) ==
  LET thisYear == Replace(user.birthday.date, t.year)
      advance == thisYear.ok /\ DateLess(thisYear.date, t)
      occ == IF advance THEN Replace(thisYear.date, t.year + 1) ELSE thisYear
      entry == [name |-> user.name, congratulation_date |-> Strftime(occ.date)]
  IN IF ~occ.ok THEN [raised |-> TRUE, exc |-> occ.exc, hit |-> FALSE, entry |-> entry]
     ELSE [raised |-> FALSE, exc |-> "",
           hit |-> 0 <= DaysBetween(occ.date, t) /\ DaysBetween(occ.date, t) <= days,
           entry |-> entry]

\* The loop gone wrong: each hit is put in front of the list, not appended.
RECURSIVE UpcomingFrom_reversed(_, _, _, _)
UpcomingFrom_reversed(b, i, t, days) ==
  IF i > Len(b) THEN [raised |-> FALSE, exc |-> "", list |-> <<>>]
  ELSE IF ~b[i].rec.birthday.set THEN UpcomingFrom_reversed(b, i + 1, t, days)
  ELSE LET one == UpcomingOf(b[i].rec, t, days)
           more == UpcomingFrom_reversed(b, i + 1, t, days)
       IN IF one.raised THEN [raised |-> TRUE, exc |-> one.exc, list |-> <<>>]
          ELSE IF more.raised THEN [raised |-> TRUE, exc |-> more.exc, list |-> <<>>]
          ELSE [raised |-> FALSE, exc |-> "",
                list |-> more.list \o (IF one.hit THEN <<one.entry>> ELSE <<>>)]

\* AddressBook.get_upcoming_birthdays from position i on: [raised, exc,
\* list].  raised stands for the ValueError of date.replace leaving the
\* method, at the first record in iteration order on which it fails.
RECURSIVE UpcomingFrom(_, _, _, _)
UpcomingFrom(b, i, t, days) ==
  IF i > Len(b) THEN [raised |-> FALSE, exc |-> "", list |-> <<>>]
  ELSE IF ~b[i].rec.birthday.set THEN UpcomingFrom(b, i + 1, t, days)
  ELSE LET one == UpcomingOf(b[i].rec, t, days)
           more == UpcomingFrom(b, i + 1, t, days)
       IN IF one.raised THEN [raised |-> TRUE, exc |-> one.exc, list |-> <<>>]
          ELSE IF more.raised THEN [raised |-> TRUE, exc |-> more.exc, list |-> <<>>]
          ELSE [raised |-> FALSE, exc |-> "",
                list |-> (IF one.hit THEN <<one.entry>> ELSE <<>>) \o more.list]

get_upcoming_birthdays(b, t, days) == UpcomingFrom(b, 1, t, days)

\* def get_upcoming_birthdays(self, days=7)
DefaultDays == 7

(***************************************************************************)
(* How a call comes back, and what it displayed.                           *)
(***************************************************************************)
Return(type, val) == [how |-> "return", type |-> type, val |-> val]
Raise(type, val) == [how |-> "raise", type |-> type, val |-> val]
ReturnNone == Return("None", "None")

\* A displayed message: a literal of the source, or a text computed from data.
Lit(text) == [lit |-> text, chars |-> <<>>]
Chars(cs) == [lit |-> "", chars |-> cs]

\* The outcome of one operation: the book it leaves, how it came back, its display.
Outcome(b, r, o) == [book |-> b, ret |-> r, out |-> o]

NameNotFound == "Name not found. Please, check and try again."
EnterCorrect == "Enter correct information."

\* The ValueError of an unpacking that met too few values: "name, phone, *_ =
\* args" wants at least 2, "name, old_phone, new_phone, *_ = args" at least
\* 3, "(name,) = args" exactly 1.
NotEnough(expected, got) ==
  CASE expected = 2 /\ got = 0 -> "not enough values to unpack (expected at least 2, got 0)"
    [] expected = 2 /\ got = 1 -> "not enough values to unpack (expected at least 2, got 1)"
    [] expected = 3 /\ got = 0 -> "not enough values to unpack (expected at least 3, got 0)"
    [] expected = 3 /\ got = 1 -> "not enough values to unpack (expected at least 3, got 1)"
    [] expected = 3 /\ got = 2 -> "not enough values to unpack (expected at least 3, got 2)"
    [] expected = 1 /\ got = 0 -> "not enough values to unpack (expected 1, got 0)"

\* The ValueError of "(name,) = args" on more than one value.
TooMany == "too many values to unpack (expected 1)"

\* input_error: KeyError, ValueError and IndexError become return values,
\* the ValueError as the exception object itself; anything else goes on.
input_error(o) ==
  IF o.ret.how # "raise" THEN o
  ELSE IF o.ret.type = "KeyError" THEN [o EXCEPT !.ret = Return("str", NameNotFound)]
  ELSE IF o.ret.type = "ValueError" THEN [o EXCEPT !.ret = Return("ValueError", o.ret.val)]
  ELSE IF o.ret.type = "IndexError" THEN [o EXCEPT !.ret = Return("str", EnterCorrect)]
  ELSE o

\* "; ".join(phones)
RECURSIVE JoinPhones(_)
JoinPhones(phones) ==
  IF phones = <<>> THEN <<>>
  ELSE IF Len(phones) = 1 THEN phones[1]
  ELSE phones[1] \o <<Semicolon, Space>> \o JoinPhones(Tail(phones))

(***************************************************************************)
(* The command functions, before decoration.                               *)
(***************************************************************************)
\* add_contact: name, phone, *_ = args
add_contact(args, b) ==
  IF Len(args) < 2 THEN Outcome(b, Raise("ValueError", NotEnough(2, Len(args))), <<>>)
  ELSE LET name == args[1]
           phone == args[2]
           absent == find(b, name) = 0
           b1 == IF absent THEN add_record(b, Record(name)) ELSE b
           message == IF absent THEN "Contact added." ELSE "Contact updated."
           i == find(b1, name)
           added == add_phone(b1[i].rec, phone)
       IN IF phone = <<>> THEN Outcome(b1, ReturnNone, <<Lit(message)>>)
          ELSE IF added.exc # "" THEN Outcome(b1, Raise("ValueError", added.exc), <<>>)
          ELSE Outcome(Mutate(b1, i, added.rec), ReturnNone, <<Lit(message)>>)

\* change_contact: name, old_phone, new_phone, *_ = args
change_contact(args, b) ==
  IF Len(args) < 3 THEN Outcome(b, Raise("ValueError", NotEnough(3, Len(args))), <<>>)
  ELSE LET i == find(b, args[1])
           edited == edit_phone(b[i].rec, args[2], args[3])
       IN IF i = 0 THEN Outcome(b, Raise("KeyError", ""), <<>>)
          ELSE IF edited.exc # "" THEN Outcome(b, Raise("ValueError", edited.exc), <<>>)
          ELSE Outcome(Mutate(b, i, edited.rec), ReturnNone, <<Lit("Contact updated.")>>)

\* show_phone: (name,) = args
show_phone(args, b) ==
  IF Len(args) < 1 THEN Outcome(b, Raise("ValueError", NotEnough(1, Len(args))), <<>>)
  ELSE IF Len(args) > 1 THEN Outcome(b, Raise("ValueError", TooMany), <<>>)
  ELSE LET i == find(b, args[1])
       IN IF i = 0 THEN Outcome(b, Raise("KeyError", ""), <<>>)
          ELSE Outcome(b, ReturnNone, <<Chars(JoinPhones(b[i].rec.phones))>>)

\* add_birthday: name = args[0]; birthday = args[1]
add_birthday(args, b) ==
  IF Len(args) < 2 THEN Outcome(b, Raise("IndexError", "list index out of range"), <<>>)
  ELSE LET i == find(b, args[1])
           dated == Record_add_birthday(b[i].rec, args[2])
       IN IF i = 0 THEN Outcome(b, Raise("KeyError", ""), <<>>)
          ELSE IF dated.exc # "" THEN Outcome(b, Raise("ValueError", dated.exc), <<>>)
          ELSE Outcome(Mutate(b, i, dated.rec), ReturnNone, <<Lit("Birthday added.")>>)

\* show_birthday: (name,) = args; record.birthday is read with no test of record
show_birthday(args, b) ==
  IF Len(args) < 1 THEN Outcome(b, Raise("ValueError", NotEnough(1, Len(args))), <<>>)
  ELSE IF Len(args) > 1 THEN Outcome(b, Raise("ValueError", TooMany), <<>>)
  ELSE LET i == find(b, args[1])
       IN IF i = 0
          THEN Outcome(b, Raise("AttributeError",
                                "'NoneType' object has no attribute 'birthday'"), <<>>)
          ELSE IF ~b[i].rec.birthday.set THEN Outcome(b, ReturnNone, <<Lit("None")>>)
          ELSE Outcome(b, ReturnNone, <<Chars(b[i].rec.birthday.value)>>)

(***************************************************************************)
(* show_all.                                                               *)
(***************************************************************************)
\* Record.__str__: "Contact name: <name>, phones: <p1>; <p2>"
RecordText(rec) ==
  <<67, 111, 110, 116, 97, 99, 116, 32, 110, 97, 109, 101, 58, 32>> \o rec.name
    \o <<44, 32, 112, 104, 111, 110, 101, 115, 58, 32>> \o JoinPhones(rec.phones)

\* show_all: display_all_contacts prints every record of the book.
show_all(b) == Outcome(b, ReturnNone, [i \in 1..Len(b) |-> Chars(RecordText(b[i].rec))])

(***************************************************************************)
(* database.bin.                                                           *)
(***************************************************************************)
NoFile == [exists |-> FALSE, book |-> <<>>]

\* load_data: the book pickle.load returns, or AddressBook() when there is
\* no file.
load_data(f) == IF f.exists THEN f.book ELSE <<>>

(***************************************************************************)
(* The inputs the operations are driven with.                              *)
(***************************************************************************)
\* The text of a digit string.
Digits(ds) == [i \in 1..Len(ds) |-> Zero + ds[i]]

Alice == <<65, 108, 105, 99, 101>>
Bob == <<66, 111, 98>>
Names == {Alice, Bob}

P1 == Digits(<<1, 2, 3, 4, 5, 6, 7, 8, 9, 0>>)            \* "1234567890"
P2 == Digits(<<0, 9, 8, 7, 6, 5, 4, 3, 2, 1>>)            \* "0987654321"
PSup == Digits(<<1, 2, 3, 4, 5, 6, 7, 8, 9>>) \o <<178>>  \* "123456789" and SUPERSCRIPT TWO
PShort == Digits(<<1, 2, 3>>)                             \* "123"
PAlpha == Digits(<<1, 2, 3, 4, 5>>) \o <<97, 98, 99, 100, 101>>  \* "12345abcde"
PEmpty == <<>>                                            \* ""

\* What the contacts specification types: two well-formed phones, a short one, none.
PhoneInputs == {P1, P2, PShort, PEmpty}
OldPhoneInputs == {P1, P2}
NewPhoneInputs == {P2, PShort}

\* What the phones specification types as well: SUPERSCRIPT TWO for a digit, letters.
AllPhoneInputs == PhoneInputs \cup {PSup, PAlpha}
AllOldPhoneInputs == OldPhoneInputs \cup {PSup}
AllNewPhoneInputs == NewPhoneInputs \cup {P1, PSup}

\* "DD.MM.YYYY"
DMY(d, m, y) == Pad2(d) \o <<Dot>> \o Pad2(m) \o <<Dot>> \o Decimal(y)

B2902 == DMY(29, 2, 2020)                                 \* "29.02.2020"
B0103 == DMY(1, 3, 2000)                                  \* "01.03.2000"
B3112 == DMY(31, 12, 1990)                                \* "31.12.1990"
B0501 == <<53, Dot, 49, Dot>> \o Decimal(1999)              \* "5.1.1999"
BNoLeap == DMY(29, 2, 2021)                               \* "29.02.2021": no such day

GoodBirthdayInputs == {B2902, B0103, B3112, B0501}

\* The dates a run starts on: before the end of February and before the end
\* of December, in a common year and in a leap year, and before the end of
\* the last year a date can have.
StartDays ==
  {Date(2023, 2, 21), Date(2023, 12, 23), Date(2024, 2, 21), Date(2024, 12, 23),
   Date(MaxYear, 12, 23)}

DaysInputs == {0, DefaultDays, MaxDays}

PhoneCount(b, name) == IF find(b, name) = 0 THEN 0 ELSE Len(b[find(b, name)].rec.phones)

(***************************************************************************)
(* History of insertions, kept beside the program's state.                 *)
(***************************************************************************)
Range(s) == {s[i] : i \in 1..Len(s)}

Track(b2) ==
  LET new == Keys(b2) \ Keys(book)
      newSeq == IF new = {} THEN <<>> ELSE <<CHOOSE n \in new : TRUE>>
  IN /\ liveOrder' = SelectSeq(liveOrder, LAMBDA n : n \in Keys(b2)) \o newSeq
     /\ firstOrder' = firstOrder \o SelectSeq(newSeq, LAMBDA n : n \notin Range(firstOrder))

\* The keys of a book in its iteration order.
KeyOrder(b) == [i \in 1..Len(b) |-> b[i].key]

\* One call taken by a caller of the module: its outcome becomes the state.
Step(op, args, o) ==
  /\ call' = [op |-> op, args |-> args]
  /\ book' = o.book
  /\ ret' = o.ret
  /\ out' = o.out
  /\ Track(o.book)
  /\ UNCHANGED <<today, elapsed, running, file>>

(***************************************************************************)
(* Actions: the command functions, called with a list of arguments.        *)
(***************************************************************************)
CmdAdd(names, phones, cap) ==
  \E args \in {<<>>, <<Alice>>} \cup {<<n, p>> : n \in names, p \in phones} :
    /\ Len(args) = 2 => PhoneCount(book, args[1]) < cap
    /\ Step("add", args, input_error(add_contact(args, book)))

CmdChange(names, olds, news) ==
  \E args \in {<<>>, <<Alice, P1>>} \cup {<<n, p, q>> : n \in names, p \in olds, q \in news} :
    Step("change", args, input_error(change_contact(args, book)))

CmdPhone ==
  \E args \in {<<>>, <<Alice, Bob>>} \cup {<<n>> : n \in Names} :
    Step("phone", args, input_error(show_phone(args, book)))

CmdAddBirthday(birthdays) ==
  \E args \in {<<>>, <<Alice>>} \cup {<<n, d>> : n \in Names, d \in birthdays} :
    Step("add-birthday", args, input_error(add_birthday(args, book)))

CmdShowBirthday ==
  \E args \in {<<>>, <<Alice, Bob>>} \cup {<<n>> : n \in Names} :
    Step("show-birthday", args, input_error(show_birthday(args, book)))

\* show_all(book, ui)
ShowAll == Step("all", <<>>, show_all(book))

(***************************************************************************)
(* Actions: main.                                                          *)
(***************************************************************************)
\* One turn of the loop: get_input returns the line typed, whatever it is,
\* and parse_input(user_input) raises NameError, for no parse_input is
\* defined or imported.  Nothing catches it: main ends, no branch of the
\* loop having run and database.bin untouched.
MainTurn ==
  /\ running
  /\ call' = [op |-> "parse_input", args |-> <<>>]
  /\ ret' = Raise("NameError", "name 'parse_input' is not defined")
  /\ out' = <<>>
  /\ running' = FALSE
  /\ UNCHANGED <<book, today, elapsed, file, firstOrder, liveOrder>>

(***************************************************************************)
(* Actions: methods called on the book and on a record of it, by a caller  *)
(* of the classes.                                                         *)
(***************************************************************************)
\* AddressBook.get_upcoming_birthdays(days)
Upcoming ==
  \E days \in DaysInputs :
    LET u == get_upcoming_birthdays(book, today, days)
    IN Step("AddressBook.get_upcoming_birthdays", <<days>>,
            Outcome(book,
                    IF u.raised THEN Raise("ValueError", u.exc)
                    ELSE Return("list", u.list),
                    <<>>))

\* The outcome of a Record method called on the record find(name) returned.
OnRecord(i, done) ==
  IF done.exc # "" THEN Outcome(book, Raise("ValueError", done.exc), <<>>)
  ELSE Outcome(Mutate(book, i, done.rec), ReturnNone, <<>>)

RecAddPhone ==
  \E n \in Keys(book), p \in AllPhoneInputs :
    /\ PhoneCount(book, n) < MaxPhones
    /\ Step("Record.add_phone", <<n, p>>,
            OnRecord(find(book, n), add_phone(book[find(book, n)].rec, p)))

RecEditPhone ==
  \E n \in Keys(book), p \in AllOldPhoneInputs, q \in AllNewPhoneInputs :
    Step("Record.edit_phone", <<n, p, q>>,
         OnRecord(find(book, n), edit_phone(book[find(book, n)].rec, p, q)))

RecRemovePhone ==
  \E n \in Keys(book), p \in AllOldPhoneInputs :
    Step("Record.remove_phone", <<n, p>>,
         OnRecord(find(book, n), remove_phone(book[find(book, n)].rec, p)))

\* add_record of a record the caller built: new, or with one phone already.
BookAddRecord(records) ==
  \E r \in records :
    Step("AddressBook.add_record", <<r.name>>, Outcome(add_record(book, r), ReturnNone, <<>>))

BookFind ==
  \E n \in Names :
    Step("AddressBook.find", <<n>>,
         Outcome(book,
                 IF find(book, n) = 0 THEN ReturnNone
                 ELSE Return("Record", book[find(book, n)].rec),
                 <<>>))

BookDelete ==
  \E n \in Names :
    Step("AddressBook.delete", <<n>>, Outcome(delete(book, n), ReturnNone, <<>>))

\* Midnight passes: no operation is in progress, the last result is history.
\* No day follows 9999-12-31.
DayPasses ==
  /\ elapsed < MaxElapsed
  /\ today # Date(MaxYear, 12, 31)
  /\ today' = NextDay(today)
  /\ elapsed' = elapsed + 1
  /\ call' = [op |-> "midnight", args |-> <<>>]
  /\ ret' = ReturnNone
  /\ out' = <<>>
  /\ UNCHANGED <<book, running, file, firstOrder, liveOrder>>

(***************************************************************************)
(* Specifications.                                                         *)
(***************************************************************************)
\* main() up to its loop: the book load_data returns, then the greeting.
InitMain(files, days) ==
  /\ file \in files
  /\ book = load_data(file)
  /\ today \in days
  /\ elapsed = 0
  /\ call = [op |-> "main", args |-> <<>>]
  /\ ret = ReturnNone
  /\ out = <<Lit("Welcome to the assistant bot!")>>
  /\ running = TRUE
  /\ firstOrder = KeyOrder(book)
  /\ liveOrder = KeyOrder(book)

\* A caller of the classes and the command functions: AddressBook(), no main.
InitCaller(days) ==
  /\ file = NoFile
  /\ book = <<>>
  /\ today \in days
  /\ elapsed = 0
  /\ call = [op |-> "AddressBook", args |-> <<>>]
  /\ ret = ReturnNone
  /\ out = <<>>
  /\ running = FALSE
  /\ firstOrder = <<>>
  /\ liveOrder = <<>>

FreshRecords == {Record(n) : n \in Names}
LoadedRecords == {add_phone(Record(n), P1).rec : n \in Names}

\* The database.bin main may find: none, or one holding Alice with a phone.
SavedFiles ==
  {NoFile,
   [exists |-> TRUE, book |-> <<[key |-> Alice, rec |-> add_phone(Record(Alice), P1).rec]>>]}

\* main, from load_data to the end of its loop.
MainInit == InitMain(SavedFiles, StartDays)

MainNext == MainTurn

SpecMain == MainInit /\ [][MainNext]_vars

\* Contacts: the command functions and show_all, called by a caller of the
\* module with the arguments already split.
Init == InitCaller({Date(2023, 2, 23)})

Next ==
  \/ CmdAdd(Names, PhoneInputs, MaxPhones)
  \/ CmdChange(Names, OldPhoneInputs, NewPhoneInputs)
  \/ CmdPhone
  \/ CmdAddBirthday({B0103, BNoLeap})
  \/ CmdShowBirthday
  \/ ShowAll

Spec == Init /\ [][Next]_vars

\* Phones: one contact, its phone list under the Record methods and the
\* add and change commands, typed with every kind of phone text.
InitPhones == InitCaller({Date(2023, 2, 23)})

NextPhones ==
  \/ CmdAdd({Alice}, AllPhoneInputs, MaxPhones)
  \/ CmdChange({Alice}, AllOldPhoneInputs, AllNewPhoneInputs)
  \/ RecAddPhone
  \/ RecEditPhone
  \/ RecRemovePhone

SpecPhones == InitPhones /\ [][NextPhones]_vars

\* The book: its methods called beside the commands that add to it.
InitBook == InitCaller({Date(2023, 2, 23)})

NextBook ==
  \/ CmdAdd(Names, {P1, PShort}, MaxPhones)
  \/ CmdChange(Names, {P1}, NewPhoneInputs)
  \/ CmdAddBirthday({B0103, BNoLeap})
  \/ BookAddRecord(FreshRecords \cup LoadedRecords)
  \/ BookFind
  \/ BookDelete

SpecBook == InitBook /\ [][NextBook]_vars

\* Birthdays: contacts without phones, their birthdays, the query and the clock.
InitBirthdays == InitCaller(StartDays)

NextBirthdays ==
  \/ CmdAdd(Names, {PShort}, 1)
  \/ CmdAddBirthday(GoodBirthdayInputs \cup {BNoLeap})
  \/ BookAddRecord(FreshRecords)
  \/ BookDelete
  \/ Upcoming
  \/ DayPasses

SpecBirthdays == InitBirthdays /\ [][NextBirthdays]_vars

(***************************************************************************)
(* Vocabulary of the properties.                                           *)
(***************************************************************************)
\* The phones of the record stored under name in b, <<>> when there is none.
PhonesOf(b, name) ==
  IF \E i \in 1..Len(b) : b[i].key = name
  THEN b[CHOOSE i \in 1..Len(b) : b[i].key = name].rec.phones
  ELSE <<>>

Count(s, x) == Cardinality({i \in 1..Len(s) : s[i] = x})

\* A phone as the specification defines it: ten characters, all decimal digits.
TenDecimalDigits(p) == Len(p) = 10 /\ \A i \in 1..Len(p) : IsDecimalChar(p[i])

\* The number of arguments a command expects.
Expected(op) ==
  CASE op = "add" -> 2
    [] op = "change" -> 3
    [] op = "phone" -> 1
    [] op = "show-birthday" -> 1
    [] op = "add-birthday" -> 2
    [] OTHER -> 0

Commands == {"add", "change", "phone", "show-birthday", "add-birthday"}

\* The operation came back with a validation error: a malformed phone or date.
ValidationError(r) ==
  /\ r.type = "ValueError"
  /\ r.val \in {"Invalid phone format", "Invalid date format. Use DD.MM.YYYY"}

(***************************************************************************)
(* C1.  A command that ends in a validation error (add with an invalid     *)
(* phone, change with an invalid new phone, add-birthday with an invalid   *)
(* date) leaves the address book exactly as it was before the call.        *)
(***************************************************************************)
C1_ValidationErrorLeavesBook ==
  [][(call'.op \in {"add", "change", "add-birthday"} /\ ValidationError(ret'))
       => book' = book]_vars

(***************************************************************************)
(* C2.  change, phone, add-birthday and show-birthday, given the right     *)
(* number of arguments and a name that is not in the book, return "Name    *)
(* not found. Please, check and try again.", raise nothing to the caller   *)
(* and leave the book unchanged.                                           *)
(***************************************************************************)
C2_AbsentNameIsReported ==
  [][(/\ call'.op \in {"change", "phone", "add-birthday", "show-birthday"}
      /\ Len(call'.args) = Expected(call'.op)
      /\ call'.args[1] \notin Keys(book))
       => (ret' = Return("str", NameNotFound) /\ book' = book)]_vars

(***************************************************************************)
(* C3.  Every command called with fewer arguments than it expects returns  *)
(* "Enter correct information.", which is not the outcome of a validation  *)
(* error, and leaves the book unchanged.                                   *)
(***************************************************************************)
C3_TooFewArgumentsIsReported ==
  [][(call'.op \in Commands /\ Len(call'.args) < Expected(call'.op))
       => (/\ ret' = Return("str", EnterCorrect)
           /\ ~ValidationError(ret')
           /\ book' = book)]_vars

(***************************************************************************)
(* The window rule of the specification, computed from the calendar and    *)
(* not from date.replace: the days that follow today, one by one.          *)
(***************************************************************************)
RECURSIVE AddDays(_, _)
AddDays(t, k) == IF k = 0 THEN t ELSE AddDays(NextDay(t), k - 1)

\* The month/day of birthday date bd exists in every year it is re-anchored
\* onto: the current year, and the next one when this year's occurrence is
\* already behind today.  After 9999 there is no year, hence no such day.
AnchorExists(bd, t) ==
  /\ bd.day <= DaysInMonth(t.year, bd.month)
  /\ DateLess(Date(t.year, bd.month, bd.day), t) =>
       (t.year + 1 <= MaxYear /\ bd.day <= DaysInMonth(t.year + 1, bd.month))

\* The days from t to the next day with bd's month and day, when within days.
DueIn(bd, t, days) == {k \in 0..days : AddDays(t, k).month = bd.month /\ AddDays(t, k).day = bd.day}

\* The entries of a query result that carry name.
EntriesOf(list, name) == {i \in 1..Len(list) : list[i].name = name}

\* The record at position i of the book is included in the outcome r of the
\* query: the query returned, with an entry for it.
Included(i, r) == r.how = "return" /\ EntriesOf(r.val, book[i].rec.name) # {}

\* The record at position i of the book is included by the query exactly
\* when its birthday is due, and then with the date of that day.
WindowRule(i, r, days) ==
  LET rec == book[i].rec
      due == DueIn(rec.birthday.date, today, days)
  IN /\ (due # {}) <=> Included(i, r)
     /\ Included(i, r) =>
          \A e \in EntriesOf(r.val, rec.name), k \in due :
            (\A k2 \in due : k <= k2) =>
              r.val[e].congratulation_date = Strftime(AddDays(today, k))

(***************************************************************************)
(* C4.  For every today and window, every record with a birthday whose     *)
(* month/day exists in the target year is included by the query exactly    *)
(* when the next occurrence of that month/day on or after today is at most *)
(* window days away (0 and the window itself included), and is reported    *)
(* with the date of that occurrence.                                       *)
(***************************************************************************)
C4_WindowRuleForEveryRecord ==
  call.op = "AddressBook.get_upcoming_birthdays" =>
    \A i \in 1..Len(book) :
      (book[i].rec.birthday.set /\ AnchorExists(book[i].rec.birthday.date, today))
        => WindowRule(i, ret, call.args[1])

\* The same rule for the queries that return: what the loop computes when
\* no record of the book makes date.replace fail.
WindowRuleWhenReturned ==
  (call.op = "AddressBook.get_upcoming_birthdays" /\ ret.how = "return") =>
    \A i \in 1..Len(book) :
      book[i].rec.birthday.set =>
        (AnchorExists(book[i].rec.birthday.date, today) /\ WindowRule(i, ret, call.args[1]))

\* The query raises exactly when some birthday cannot be re-anchored.
RaisesOnlyOnMissingAnchor ==
  call.op = "AddressBook.get_upcoming_birthdays" =>
    ((ret.how = "raise") <=>
       \E i \in 1..Len(book) :
         book[i].rec.birthday.set /\ ~AnchorExists(book[i].rec.birthday.date, today))

(***************************************************************************)
(* C5.  Once a contact has the birthday "29.02.2020", the query completes  *)
(* with a result, and does not fail, on every today for which the year     *)
(* the birthday is re-anchored onto is not a leap year.                    *)
(***************************************************************************)
Feb29Stored == \E i \in 1..Len(book) : book[i].rec.birthday.set /\ book[i].rec.birthday.value = B2902

AnchorYearIsCommon ==
  \/ ~IsLeap(today.year)
  \/ DateLess(Date(today.year, 2, 29), today) /\ ~IsLeap(today.year + 1)

C5_Feb29QueryCompletes ==
  (call.op = "AddressBook.get_upcoming_birthdays" /\ Feb29Stored /\ AnchorYearIsCommon) => ret.how = "return"

(***************************************************************************)
(* C6.  edit_phone(old, new) on a record fails with 'Phone number not      *)
(* found' when no phone equals old; when it succeeds, no phone of the      *)
(* record equals old any more and at least one equals new.                 *)
(***************************************************************************)
C6_EditPhoneRemovesOld ==
  [][call'.op = "Record.edit_phone" =>
       LET old == call'.args[2]
           new == call'.args[3]
           before == PhonesOf(book, call'.args[1])
           after == PhonesOf(book', call'.args[1])
       IN /\ Count(before, old) = 0 => ret' = Raise("ValueError", "Phone number not found")
          /\ ret'.how = "return" => (Count(after, old) = 0 /\ Count(after, new) >= 1)]_vars

(***************************************************************************)
(* C6, as the code has it.  edit_phone(old, new) fails with 'Phone number  *)
(* not found', changing nothing, when no phone equals old; when it         *)
(* succeeds, the first phone that equalled old now equals new and every    *)
(* other phone is as before, so at least one phone equals new, and old     *)
(* still matches a phone exactly when new = old or old occurred more than  *)
(* once.                                                                   *)
(***************************************************************************)
C6_EditPhoneReplacesFirstMatch ==
  [][call'.op = "Record.edit_phone" =>
       LET old == call'.args[2]
           new == call'.args[3]
           before == PhonesOf(book, call'.args[1])
           after == PhonesOf(book', call'.args[1])
           first == FirstIndexOf(before, old)
       IN /\ Count(before, old) = 0 =>
               (ret' = Raise("ValueError", "Phone number not found") /\ book' = book)
          /\ ret'.how = "return" =>
               /\ first > 0
               /\ after = [before EXCEPT ![first] = new]
               /\ Count(after, new) >= 1
               /\ (Count(after, old) > 0) <=> (new = old \/ Count(before, old) > 1)]_vars

\* An edit has succeeded on a list that held old twice: old is still there.
C6_EditedAmongDuplicates ==
  /\ call.op = "Record.edit_phone"
  /\ ret.how = "return"
  /\ call.args[2] # call.args[3]
  /\ Count(PhonesOf(book, call.args[1]), call.args[2]) > 0
  /\ Count(PhonesOf(book, call.args[1]), call.args[3]) > 0

(***************************************************************************)
(* C7.  add(name, phone) with a valid phone appends phone to the end of    *)
(* the existing record's list, every earlier phone keeping its place, or   *)
(* creates the record with exactly that phone when name is absent;         *)
(* change(name, old, new) replaces the first phone equal to old where it   *)
(* stands and leaves the list's length and every other position, and       *)
(* every other record, unchanged.                                          *)
(***************************************************************************)
C7_AddAppendsChangeReplaces ==
  [][/\ (call'.op = "add" /\ Len(call'.args) = 2 /\ TenDecimalDigits(call'.args[2])) =>
          LET name == call'.args[1]
              phone == call'.args[2]
          IN /\ ret' = ReturnNone
             /\ IF name \in Keys(book)
                THEN LET i == CHOOSE i \in 1..Len(book) : book[i].key = name
                     IN book' = [book EXCEPT ![i].rec.phones = Append(@, phone)]
                ELSE book' = Append(book, [key |-> name,
                                           rec |-> [name |-> name, phones |-> <<phone>>,
                                                    birthday |-> NoBirthday]])
     /\ (call'.op = "change" /\ Len(call'.args) = 3) =>
          LET name == call'.args[1]
              old == call'.args[2]
              new == call'.args[3]
              before == PhonesOf(book, name)
              after == PhonesOf(book', name)
              first == FirstIndexOf(before, old)
          IN /\ Len(after) = Len(before)
             /\ Len(book') = Len(book)
             /\ \A i \in 1..Len(book) : book[i].key # name => book'[i] = book[i]
             /\ (first > 0 /\ TenDecimalDigits(new)) =>
                  (ret' = ReturnNone /\ after = [before EXCEPT ![first] = new])
             /\ ~(first > 0 /\ TenDecimalDigits(new)) => after = before]_vars

\* The scenario's end: a second phone was added, then the first one changed in place.
C7_ChangedFirstOfTwo ==
  /\ call.op = "change"
  /\ ret = ReturnNone
  /\ call.args[2] = P1
  /\ PhonesOf(book, call.args[1]) = <<call.args[3], P2>>

(***************************************************************************)
(* C8.  In every reachable state every stored phone is a string of exactly *)
(* 10 decimal digits.                                                      *)
(***************************************************************************)
C8_PhonesAreTenDecimalDigits ==
  \A i \in 1..Len(book) : \A j \in 1..Len(book[i].rec.phones) :
    TenDecimalDigits(book[i].rec.phones[j])

\* What the setter does guarantee: ten characters that str.isdigit() accepts.
PhonesPassTheSetter ==
  \A i \in 1..Len(book) : \A j \in 1..Len(book[i].rec.phones) :
    PhoneValid(book[i].rec.phones[j])

\* A Record method that raised left the book as it was.
RaisingMethodLeavesBook ==
  [][(call'.op \in {"Record.add_phone", "Record.edit_phone"} /\ ret'.how = "raise")
       => book' = book]_vars

(***************************************************************************)
(* C9.  Every key of the book is the name of the record stored under it    *)
(* and no name has two entries; after add_record(r) the book holds exactly *)
(* one record under r.name, named r.name; find returns the record of that  *)
(* name, or the 'not found' indicator, and never raises.                   *)
(***************************************************************************)
C9_KeysAreRecordNames ==
  /\ \A i \in 1..Len(book) : book[i].key = book[i].rec.name
  /\ \A i, j \in 1..Len(book) : book[i].key = book[j].key => i = j
  /\ call.op = "AddressBook.add_record" =>
       Cardinality({i \in 1..Len(book) : book[i].rec.name = call.args[1]}) = 1
  /\ call.op = "AddressBook.find" =>
       /\ ret.how = "return"
       /\ call.args[1] \notin Keys(book) => ret = ReturnNone
       /\ call.args[1] \in Keys(book) => (ret.type = "Record" /\ ret.val.name = call.args[1])

\* add_record was given a name the book already held, with another name after it.
C9_ReAddedExistingName ==
  /\ call.op = "AddressBook.add_record"
  /\ Len(book) = 2
  /\ book[1].key = call.args[1]
  /\ book[1].rec.phones = <<>>
  /\ firstOrder = <<call.args[1], book[2].key>>

(***************************************************************************)
(* The order of a query result against an order of names.                  *)
(***************************************************************************)
\* The names of list, all among order, follow one another as they do in order.
InOrderOf(list, order) ==
  \A i, j \in 1..Len(list) :
    i < j => \E p, q \in 1..Len(order) :
               p < q /\ order[p] = list[i].name /\ order[q] = list[j].name

\* Each name at most once, and only names of records that have a birthday.
OncePerBirthday(list, b) ==
  /\ \A i, j \in 1..Len(list) : list[i].name = list[j].name => i = j
  /\ \A i \in 1..Len(list) :
       \E k \in 1..Len(b) : b[k].rec.name = list[i].name /\ b[k].rec.birthday.set

(***************************************************************************)
(* C10.  The entries the query returns appear in the order in which their  *)
(* names were first inserted into the book, each included record once,     *)
(* records without a birthday never, and the query leaves the book         *)
(* unchanged.                                                              *)
(***************************************************************************)
C10_ResultInFirstInsertionOrder ==
  [][call'.op = "AddressBook.get_upcoming_birthdays" =>
       /\ book' = book
       /\ ret'.how = "return" =>
            (InOrderOf(ret'.val, firstOrder') /\ OncePerBirthday(ret'.val, book'))]_vars

(***************************************************************************)
(* C10, as the code has it.  The entries appear in the book's iteration    *)
(* order: the order in which the names now present were inserted, a name   *)
(* deleted and added again counting from its re-insertion; each included   *)
(* record once, records without a birthday never, and the query leaves     *)
(* the book unchanged.                                                     *)
(***************************************************************************)
C10_ResultInCurrentInsertionOrder ==
  [][call'.op = "AddressBook.get_upcoming_birthdays" =>
       /\ book' = book
       /\ ret'.how = "return" =>
            (InOrderOf(ret'.val, liveOrder') /\ OncePerBirthday(ret'.val, book'))]_vars

\* A query reported two contacts of which the first had been deleted and added again.
C10_ReportedAfterReinsertion ==
  /\ call.op = "AddressBook.get_upcoming_birthdays"
  /\ ret.how = "return"
  /\ Len(ret.val) = 2
  /\ liveOrder # firstOrder

====
